---- MODULE Spec2Model ----
(***************************************************************************)
(* Model of scvi/core/models/archesmixin.py:                               *)
(*   ArchesMixin.load_query_data   (online update of a reference model)    *)
(*   _set_params_online_update     (freeze policy for scArches)            *)
(*                                                                         *)
(* Strings the code inspects (module and parameter names) are sequences    *)
(* of atoms: every atom is a run of characters, "." is always an atom of   *)
(* its own, and the searched patterns ("fc_layers", ".0.", "encoder",      *)
(* "background_pro_alpha", "background_pro_log_beta") are whole atoms or   *)
(* runs of whole atoms that no other atom contains, so substring search    *)
(* and split(".") on atom sequences agree with Python's on the strings.    *)
(***************************************************************************)
EXTENDS Integers, Sequences, FiniteSets, TLC

\* ---------------------------------------------------------------- bounds
MaxDim == 2
NLayers == 2
MaxCells == 2
MaxSavedCats == 2

\* ------------------------------------------------------- string helpers
DOT == "."

\* Python `sub in key`
Contains(key, sub) ==
    \E i \in 1..(Len(key) - Len(sub) + 1) : SubSeq(key, i, i + Len(sub) - 1) = sub

\* Python key.split(".")[0]
SplitHead(key) ==
    IF \E i \in 1..Len(key) : key[i] = DOT
    THEN LET first == CHOOSE i \in 1..Len(key) :
                        key[i] = DOT /\ \A j \in 1..(i - 1) : key[j] # DOT
         IN SubSeq(key, 1, first - 1)
    ELSE key

\* "a" + "." + "b"
Join(a, b) == IF a = <<>> THEN b ELSE a \o <<DOT>> \o b

Digit(i) == CASE i = 0 -> "0" [] i = 1 -> "1" [] i = 2 -> "2"
              [] i = 3 -> "3" [] OTHER -> "4"

\* ------------------------------------------------- the freeze-policy tags
mod_no_grad == { <<"encoder", "_z2_z1">>, <<"decoder", "_z1_z2">> }
mod_no_hooks_yes_grad == { <<"l_", "encoder">> }
parameters_yes_grad == { <<"background_pro_alpha">>, <<"background_pro_log_beta">> }

\* the condition without the freeze_expression switch
no_hook_cond_any_encoder(key, freeze_expression) == Contains(key, <<"encoder">>)

\* no_hook_cond(key), archesmixin.py:112-113
no_hook_cond(key, freeze_expression) ==
    (~freeze_expression) /\ Contains(key, <<"encoder">>)

\* the structural rule applied to the mod_no_grad modules as well
requires_grad_ignoring_mod_no_grad(key) ==
    \/ Contains(key, <<"fc_layers">>) /\ Contains(key, <<DOT, "0", DOT>>)
    \/ SplitHead(key) \in mod_no_hooks_yes_grad
    \/ \E p \in parameters_yes_grad : Contains(key, p)

\* the structural rule without the test for item 0
requires_grad_any_fc_parameter(key) ==
    \/ Contains(key, <<"fc_layers">>) /\ SplitHead(key) \notin mod_no_grad
    \/ SplitHead(key) \in mod_no_hooks_yes_grad
    \/ \E p \in parameters_yes_grad : Contains(key, p)

\* the structural rule alone, without the always-trainable names
requires_grad_structural_only(key) ==
    /\ Contains(key, <<"fc_layers">>)
    /\ Contains(key, <<DOT, "0", DOT>>)
    /\ SplitHead(key) \notin mod_no_grad

\* requires_grad(key), archesmixin.py:115-125
requires_grad(key) ==
    LET mod_name == SplitHead(key)
        one == /\ Contains(key, <<"fc_layers">>)
               /\ Contains(key, <<DOT, "0", DOT>>)
               /\ mod_name \notin mod_no_grad
        two == mod_name \in mod_no_hooks_yes_grad
        three == Cardinality({p \in parameters_yes_grad : Contains(key, p)}) > 0
    IN IF one \/ two \/ three THEN TRUE ELSE FALSE

\* ------------------------------------------- the module handed to the code
\* A torch module is known to the code through named_modules() and
\* named_parameters(): a top-level submodule holding a fully-connected block
\* (FCLayers: fc_layers."Layer i" = Linear, BatchNorm1d, ReLU, Dropout) and
\* a linear head, one parameter held directly by the submodule, and the
\* parameters held by the root module.  The classifier keeps block and head
\* as items 0 and 1 of a Sequential named classifier.
Tops == { [top |-> <<"z_", "encoder">>, container |-> <<>>,
           block |-> <<"encoder">>, head |-> <<"mean_", "encoder">>],
          [top |-> <<"l_", "encoder">>, container |-> <<>>,
           block |-> <<"encoder">>, head |-> <<"mean_", "encoder">>],
          [top |-> <<"decoder">>, container |-> <<>>,
           block |-> <<"px_", "decoder">>, head |-> <<"px_scale_", "decoder">>],
          [top |-> <<"encoder", "_z2_z1">>, container |-> <<>>,
           block |-> <<"encoder">>, head |-> <<"mean_", "encoder">>],
          [top |-> <<"decoder", "_z1_z2">>, container |-> <<>>,
           block |-> <<"decoder">>, head |-> <<"mean_", "decoder">>],
          [top |-> <<"classifier">>, container |-> <<"classifier">>,
           block |-> <<"0">>, head |-> <<"1">>] }
RootParams == << <<"background_pro_alpha">>, <<"background_pro_log_beta">>, <<"px_r">> >>
ExtraParams == { <<"background_pro_alpha">>, <<"background_pro_log_beta">>, <<"px_r">> }
DropoutRates == { 10 }   \* percent
Archs == { [top |-> t.top, container |-> t.container, block |-> t.block,
            head |-> t.head, extra |-> e, dropout_rate |-> r] :
             t \in Tops, e \in ExtraParams, r \in DropoutRates }

SubLayerTypes == << "Linear", "BatchNorm1d", "ReLU", "Dropout" >>

ContainerName(a) == Join(a.top, a.container)
BlockName(a) == Join(ContainerName(a), a.block)
FcName(a) == Join(BlockName(a), <<"fc_layers">>)
LayerName(a, i) == Join(FcName(a), <<"Layer ", Digit(i)>>)
SubLayerName(a, i, j) == Join(LayerName(a, i), <<Digit(j)>>)
HeadName(a) == Join(ContainerName(a), a.head)

RECURSIVE Flatten(_)
Flatten(ss) == IF ss = <<>> THEN <<>> ELSE Head(ss) \o Flatten(Tail(ss))

\* model.named_modules(): (name, module) in pre-order
named_modules(a) ==
    << [name |-> <<>>, type |-> "Root"],
       [name |-> a.top, type |-> "Submodule"] >>
    \o (IF a.container = <<>> THEN <<>>
        ELSE << [name |-> ContainerName(a), type |-> "Sequential"] >>)
    \o << [name |-> BlockName(a), type |-> "FCLayers"],
       [name |-> FcName(a), type |-> "Sequential"] >>
    \o Flatten([i \in 1..NLayers |->
          << [name |-> LayerName(a, i - 1), type |-> "Sequential"] >>
          \o [j \in 1..4 |-> [name |-> SubLayerName(a, i - 1, j - 1),
                              type |-> SubLayerTypes[j]]]])
    \o << [name |-> HeadName(a), type |-> "Linear"] >>

\* model.named_parameters(): names, own parameters before the children's
named_parameters(a) ==
    RootParams
    \o << Join(a.top, a.extra) >>
    \o Flatten([i \in 1..NLayers |->
          << Join(SubLayerName(a, i - 1, 0), <<"weight">>),
             Join(SubLayerName(a, i - 1, 0), <<"bias">>),
             Join(SubLayerName(a, i - 1, 1), <<"weight">>),
             Join(SubLayerName(a, i - 1, 1), <<"bias">>) >>])
    \o << Join(HeadName(a), <<"weight">>), Join(HeadName(a), <<"bias">>) >>

Range(s) == { s[i] : i \in 1..Len(s) }
ModuleNames(a, ty) == { m.name : m \in { x \in Range(named_modules(a)) : x.type = ty } }

\* The trainable state of a freshly constructed torch module.
FreshModule(a) ==
    [ arch |-> a,
      hooks |-> [k \in ModuleNames(a, "FCLayers") |-> "none"],
      p |-> [k \in ModuleNames(a, "Dropout") |-> a.dropout_rate],
      affine |-> [k \in ModuleNames(a, "BatchNorm1d") |-> TRUE],
      track_running_stats |-> [k \in ModuleNames(a, "BatchNorm1d") |-> TRUE],
      requires_grad |-> [k \in Range(named_parameters(a)) |-> TRUE],
      grad_writes |-> [k \in Range(named_parameters(a)) |-> 0] ]

HookArg(b) == IF b THEN "hook_first_layer" ELSE "skip_first_layer"

\* the loop body that forgets track_running_stats
ModuleStepAffineOnly(m, key, type, freeze_batchnorm, freeze_dropout, freeze_expression) ==
    IF SplitHead(key) \in mod_no_hooks_yes_grad
    THEN m
    ELSE LET m1 == IF type = "FCLayers"
                   THEN [m EXCEPT !.hooks[key] =
                           HookArg(~no_hook_cond(key, freeze_expression))]
                   ELSE m
             m2 == IF type = "Dropout" /\ freeze_dropout
                   THEN [m1 EXCEPT !.p[key] = 0]
                   ELSE m1
         IN IF type = "BatchNorm1d" /\ freeze_batchnorm
            THEN [m2 EXCEPT !.affine[key] = FALSE]
            ELSE m2

\* the loop body that zeroes dropout without asking freeze_dropout
ModuleStepDropoutAlways(m, key, type, freeze_batchnorm, freeze_dropout, freeze_expression) ==
    IF SplitHead(key) \in mod_no_hooks_yes_grad
    THEN m
    ELSE LET m1 == IF type = "FCLayers"
                   THEN [m EXCEPT !.hooks[key] =
                           HookArg(~no_hook_cond(key, freeze_expression))]
                   ELSE m
             m2 == IF type = "Dropout"
                   THEN [m1 EXCEPT !.p[key] = 0]
                   ELSE m1
         IN IF type = "BatchNorm1d" /\ freeze_batchnorm
            THEN [m2 EXCEPT !.affine[key] = FALSE,
                            !.track_running_stats[key] = FALSE]
            ELSE m2

\* body of `for key, mod in model.named_modules()`, archesmixin.py:127-140
ModuleStep(m, key, type, freeze_batchnorm, freeze_dropout, freeze_expression) ==
    IF SplitHead(key) \in mod_no_hooks_yes_grad
    THEN m
    ELSE LET hook_first_layer == IF no_hook_cond(key, freeze_expression) THEN FALSE ELSE TRUE
             m1 == IF type = "FCLayers"
                   THEN [m EXCEPT !.hooks[key] = HookArg(hook_first_layer)]
                   ELSE m
             m2 == IF type = "Dropout" /\ freeze_dropout
                   THEN [m1 EXCEPT !.p[key] = 0]
                   ELSE m1
             m3 == IF type = "BatchNorm1d" /\ freeze_batchnorm
                   THEN [m2 EXCEPT !.affine[key] = FALSE,
                                   !.track_running_stats[key] = FALSE]
                   ELSE m2
         IN m3

RECURSIVE ModuleLoop(_, _, _, _, _, _)
ModuleLoop(m, mods, i, fb, fd, fe) ==
    IF i > Len(mods) THEN m
    ELSE ModuleLoop(ModuleStep(m, mods[i].name, mods[i].type, fb, fd, fe),
                    mods, i + 1, fb, fd, fe)

\* the loop body that enables gradients and never disables them
ParameterStepEnableOnly(m, key) ==
    IF requires_grad(key)
    THEN [m EXCEPT !.requires_grad[key] = TRUE, !.grad_writes[key] = @ + 1]
    ELSE m

\* body of `for key, par in model.named_parameters()`, archesmixin.py:142-146
ParameterStep(m, key) ==
    IF requires_grad(key)
    THEN [m EXCEPT !.requires_grad[key] = TRUE, !.grad_writes[key] = @ + 1]
    ELSE [m EXCEPT !.requires_grad[key] = FALSE, !.grad_writes[key] = @ + 1]

RECURSIVE ParameterLoop(_, _, _)
ParameterLoop(m, pars, i) ==
    IF i > Len(pars) THEN m
    ELSE ParameterLoop(ParameterStep(m, pars[i]), pars, i + 1)

\* _set_params_online_update(model, freeze_batchnorm, freeze_dropout, freeze_expression)
set_params_online_update(m, freeze_batchnorm, freeze_dropout, freeze_expression) ==
    ParameterLoop(
        ModuleLoop(m, named_modules(m.arch), 1,
                   freeze_batchnorm, freeze_dropout, freeze_expression),
        named_parameters(m.arch), 1)

\* ---------------------------------------------------------------- tensors
\* A tensor is its size (a sequence of dimensions) and its entries, a
\* function of the index tuples.  Entries are symbolic: origin and position.
Last(s) == s[Len(s)]
Front(s) == SubSeq(s, 1, Len(s) - 1)
MaxOf(s) == CHOOSE x \in Range(s) : \A y \in Range(s) : y <= x

Indices(size) ==
    IF Len(size) = 0 THEN { <<>> }
    ELSE { ix \in [1..Len(size) -> 1..MaxOf(size)] :
             \A k \in 1..Len(size) : ix[k] <= size[k] }

Tensor(size, origin, key) ==
    [ size |-> size,
      at |-> [ix \in Indices(size) |-> [from |-> origin, key |-> key, ix |-> ix]] ]

\* new_ten[..., :dim_diff]: the leading columns where the trailing are meant
SliceLeading(t, dim_diff) ==
    LET w == Last(t.size)
        stop == IF dim_diff >= 0 THEN (IF dim_diff < w THEN dim_diff ELSE w)
                ELSE (IF w + dim_diff > 0 THEN w + dim_diff ELSE 0)
        size == Front(t.size) \o << stop >>
    IN [ size |-> size, at |-> [ix \in Indices(size) |-> t.at[ix]] ]

\* new_ten[..., -dim_diff:] on a tensor of at least one dimension
SliceLast(t, dim_diff) ==
    LET w == Last(t.size)
        start == IF dim_diff > 0 THEN (IF w - dim_diff > 0 THEN w - dim_diff ELSE 0)
                 ELSE IF dim_diff = 0 THEN 0
                 ELSE (IF -dim_diff < w THEN -dim_diff ELSE w)
        size == Front(t.size) \o << w - start >>
    IN [ size |-> size,
         at |-> [ix \in Indices(size) |->
                   t.at[[ix EXCEPT ![Len(ix)] = @ + start]]] ]

IsLegacyEmpty(t) == t.size = << 0 >>

\* torch.cat([a, b], dim=-1)
TorchCat(a, b) ==
    IF IsLegacyEmpty(a) THEN [ok |-> TRUE, val |-> b]
    ELSE IF IsLegacyEmpty(b) THEN [ok |-> TRUE, val |-> a]
    ELSE IF \/ Len(a.size) = 0 \/ Len(b.size) = 0
            \/ Len(a.size) # Len(b.size)
            \/ Front(a.size) # Front(b.size)
    THEN [ok |-> FALSE, val |-> a]
    ELSE LET wa == Last(a.size)
             size == Front(a.size) \o << wa + Last(b.size) >>
         IN [ ok |-> TRUE,
              val |-> [ size |-> size,
                        at |-> [ix \in Indices(size) |->
                                  IF Last(ix) <= wa THEN a.at[ix]
                                  ELSE b.at[[ix EXCEPT ![Len(ix)] = @ - wa]]] ] ]

\* the loop body taking the new model's tensor whenever the sizes differ
ReconcileStepTakeNew(lsd, nsd, key) ==
    IF key \notin Range(nsd.keys)
    THEN [err |-> "KeyError", lsd |-> lsd]
    ELSE IF nsd.t[key].size = lsd.t[key].size
         THEN [err |-> "none", lsd |-> lsd]
         ELSE [err |-> "none", lsd |-> [lsd EXCEPT !.t[key] = nsd.t[key]]]

\* body of `for key, load_ten in load_state_dict.items()`, archesmixin.py:80-88
\* lsd, nsd: state dicts [keys |-> insertion order, t |-> key -> tensor]
ReconcileStep(lsd, nsd, key) ==
    IF key \notin Range(nsd.keys)
    THEN [err |-> "KeyError", lsd |-> lsd]
    ELSE LET load_ten == lsd.t[key]
             new_ten == nsd.t[key]
         IN IF new_ten.size = load_ten.size
            THEN [err |-> "none", lsd |-> lsd]
            ELSE IF Len(new_ten.size) = 0 \/ Len(load_ten.size) = 0
            THEN [err |-> "IndexError", lsd |-> lsd]
            ELSE LET dim_diff == Last(new_ten.size) - Last(load_ten.size)
                     fixed_ten == TorchCat(load_ten, SliceLast(new_ten, dim_diff))
                 IN IF fixed_ten.ok
                    THEN [err |-> "none",
                          lsd |-> [lsd EXCEPT !.t[key] = fixed_ten.val]]
                    ELSE [err |-> "RuntimeError", lsd |-> lsd]

RECURSIVE ReconcileLoop(_, _, _)
ReconcileLoop(lsd, nsd, i) ==
    IF i > Len(lsd.keys) THEN [err |-> "none", lsd |-> lsd]
    ELSE LET r == ReconcileStep(lsd, nsd, lsd.keys[i])
         IN IF r.err # "none" THEN r ELSE ReconcileLoop(r.lsd, nsd, i + 1)

\* torch.nn.Module.load_state_dict(state_dict), strict: the module's tensors
\* take the given values unless a key is missing, unexpected or of another size
LoadStateDict(sd, lsd) ==
    IF \/ Range(sd.keys) # Range(lsd.keys)
       \/ \E k \in Range(sd.keys) : sd.t[k].size # lsd.t[k].size
    THEN [err |-> "RuntimeError", sd |-> sd]
    ELSE [err |-> "none",
          sd |-> [sd EXCEPT !.t = [k \in Range(sd.keys) |->
                                     [size |-> sd.t[k].size, at |-> lsd.t[k].at]]]]

\* ------------------------------------------------- state dicts of a model
\* The two entries whose shapes the saved file and the new model may
\* disagree on: the first linear layer's weight and bias.
WeightKey(a) == Join(SubLayerName(a, 0, 0), <<"weight">>)
BiasKey(a) == Join(SubLayerName(a, 0, 0), <<"bias">>)
UnexpectedKey == <<"px_r_", "decoder", DOT, "weight">>

Shapes == UNION { [1..n -> 1..MaxDim] : n \in 0..2 }
Shapes1 == UNION { [1..n -> 1..MaxDim] : n \in 0..1 }
OtherShape == << 1 >>

ShapeOf(a, key, w, b) ==
    IF key = WeightKey(a) THEN w ELSE IF key = BiasKey(a) THEN b ELSE OtherShape

\* state_dict of a module with the given sizes of weight and bias
StateDict(a, keys, origin, w, b) ==
    [ keys |-> keys,
      t |-> [k \in Range(keys) |-> Tensor(ShapeOf(a, k, w, b), origin, k)] ]

KeyVariants == { "same", "missing", "unexpected" }
SavedKeys(a, variant) ==
    CASE variant = "missing" -> Front(named_parameters(a))
      [] variant = "unexpected" -> named_parameters(a) \o << UnexpectedKey >>
      [] OTHER -> named_parameters(a)

\* ------------------------------------------- setup descriptor and dataset
Fields == { "batch", "labels" }
CatValues == { "a", "b", "c" }

NoDup(s) == \A i, j \in 1..Len(s) : i # j => s[i] # s[j]
SavedLists == { s \in UNION { [1..n -> CatValues] : n \in 1..MaxSavedCats } : NoDup(s) }
Columns == [1..MaxCells -> CatValues]

Descriptor(cats) ==
    [f \in Fields |-> [attr_name |-> "obs", attr_key |-> f, categories |-> cats[f]]]

NoSetup == [f \in {} |-> 0]

\* position of a value in a category list, 0-based, -1 when absent
CodeOf(cats, v) ==
    IF \E i \in 1..Len(cats) : cats[i] = v
    THEN (CHOOSE i \in 1..Len(cats) : cats[i] = v) - 1
    ELSE -1

\* union of the observed values into the ordered category list
RECURSIVE ExtendCategories(_, _)
ExtendCategories(cats, column) ==
    IF column = <<>> THEN cats
    ELSE IF Head(column) \in Range(cats)
         THEN ExtendCategories(cats, Tail(column))
         ELSE ExtendCategories(Append(cats, Head(column)), Tail(column))

\* transfer_anndata_setup(setup_dict, adata, extend_categories): registers
\* the descriptor on adata (adata.uns["_scvi"]) and encodes its columns
transfer_anndata_setup(setup_dict, ad, extend_categories) ==
    LET cats == [f \in Fields |->
                   IF extend_categories
                   THEN ExtendCategories(setup_dict[f].categories, ad.obs[f])
                   ELSE setup_dict[f].categories]
    IN [ obs |-> ad.obs,
         uns |-> [f \in Fields |-> [setup_dict[f] EXCEPT !.categories = cats[f]]],
         codes |-> [f \in Fields |->
                      [i \in 1..Len(ad.obs[f]) |-> CodeOf(cats[f], ad.obs[f][i])]] ]

\* ------------------------------------------------------- saved attributes
Val(x) == [isdict |-> FALSE, v |-> x, d |-> [k \in {} |-> 0]]
Dict(d) == [isdict |-> TRUE, v |-> 0, d |-> d]

InitParamsChoices ==
    { [keys |-> << "n_latent", "model_kwargs" >>,
       t |-> [n_latent |-> Val(10), model_kwargs |-> Dict([n_hidden |-> 128])]],
      [keys |-> << "n_latent", "n_layers" >>,
       t |-> [n_latent |-> Val(10), n_layers |-> Val(NLayers)]],
      [keys |-> << "n_latent", "model_kwargs", "extra_kwargs" >>,
       t |-> [n_latent |-> Val(10), model_kwargs |-> Dict([n_hidden |-> 128]),
              extra_kwargs |-> Dict([n_hidden |-> 64, dispersion |-> 1])]],
      [keys |-> << "n_latent", "model_kwargs" >>,
       t |-> [n_latent |-> Val(10), model_kwargs |-> Dict([n_latent |-> 5])]] }

AttrFile(desc, trained, has_init, ip) ==
    IF has_init
    THEN [scvi_setup_dict_ |-> desc, is_trained_ |-> trained, init_params_ |-> ip]
    ELSE [scvi_setup_dict_ |-> desc, is_trained_ |-> trained]

Without(d, key) == [k \in (DOMAIN d) \ {key} |-> d[k]]
Update(d, e) == [k \in (DOMAIN d) \cup (DOMAIN e) |-> IF k \in DOMAIN e THEN e[k] ELSE d[k]]

\* non_kwargs, archesmixin.py:62
NonKwargs(init_params) ==
    [k \in { x \in Range(init_params.keys) : ~init_params.t[x].isdict } |->
       init_params.t[k].v]

\* kwargs, archesmixin.py:64-65: the entries of the dict-valued parameters,
\* a later dict overwriting an earlier one's entry of the same name
RECURSIVE ExpandKwargsFirstWins(_, _, _)
\* the expansion in which an earlier dict's entry is kept
ExpandKwargsFirstWins(init_params, i, acc) ==
    IF i > Len(init_params.keys) THEN acc
    ELSE LET e == init_params.t[init_params.keys[i]]
         IN ExpandKwargsFirstWins(init_params, i + 1,
                                  IF e.isdict THEN Update(e.d, acc) ELSE acc)

RECURSIVE ExpandKwargs(_, _, _)
ExpandKwargs(init_params, i, acc) ==
    IF i > Len(init_params.keys) THEN acc
    ELSE LET e == init_params.t[init_params.keys[i]]
         IN ExpandKwargs(init_params, i + 1,
                         IF e.isdict THEN Update(acc, e.d) ELSE acc)

Kwargs(init_params) == ExpandKwargs(init_params, 1, [k \in {} |-> 0])

\* ------------------------------------------------------------------ state
VARIABLES
    args,            \* use_cuda, freeze_dropout, freeze_batchnorm, freeze_expression
    cuda_available,  \* torch.cuda.is_available()
    attr_file,       \* dir_path/attr.pkl
    params_file,     \* dir_path/model_params.pt
    cls,             \* what cls(adata, ...) constructs: architecture, fresh tensors
    adata,           \* the caller's dataset: obs columns, uns["_scvi"], encodings
    pc,              \* position in load_query_data
    err,             \* the exception raised, "none" otherwise
    io,              \* the calls made so far, in order
    attr_dict,       \* local attr_dict
    load_state_dict, \* local load_state_dict
    model,           \* the model under construction
    call             \* a call of one of the helper functions: arguments, result

vars == << args, cuda_available, attr_file, params_file, cls, adata,
           pc, err, io, attr_dict, load_state_dict, model, call >>

inputs == << args, cuda_available, attr_file, params_file, cls, call >>

NoDict == [k \in {} |-> 0]
NoStateDict == [keys |-> <<>>, t |-> NoDict]
NoModel == [built |-> FALSE]
NoCall == [fn |-> "none"]

DefaultArch == [top |-> <<"z_", "encoder">>, container |-> <<>>, block |-> <<"encoder">>,
                head |-> <<"mean_", "encoder">>, extra |-> <<"px_r">>,
                dropout_rate |-> 10]
DefaultArgs == [use_cuda |-> TRUE, freeze_dropout |-> FALSE,
                freeze_batchnorm |-> FALSE, freeze_expression |-> TRUE]
DefaultInitParams ==
    [keys |-> << "n_latent", "model_kwargs" >>,
     t |-> [n_latent |-> Val(10), model_kwargs |-> Dict([n_hidden |-> 128])]]
DefaultCats == [f \in Fields |-> << "a" >>]
DefaultObs == [f \in Fields |-> [i \in 1..MaxCells |-> "a"]]

Dataset(obs) == [obs |-> obs, uns |-> NoSetup, codes |-> NoSetup]
ParamsFile(a, variant, w, b, device) ==
    [ state_dict |-> StateDict(a, SavedKeys(a, variant), "saved", w, b),
      device |-> device ]
Class(a, w, b) ==
    [ arch |-> a, state_dict |-> StateDict(a, named_parameters(a), "init", w, b) ]

BiasCases == { << << 1 >>, << 1 >> >>, << << 1 >>, << 2 >> >>,
               << << 2 >>, << 1 >> >>, << <<>>, << 1 >> >> }

\* the saved and the new model disagree on tensor shapes in every way
InitWeights ==
    /\ args = DefaultArgs
    /\ cuda_available = FALSE
    /\ attr_file = AttrFile(Descriptor(DefaultCats), TRUE, TRUE, DefaultInitParams)
    /\ \E variant \in KeyVariants, sw \in Shapes, nw \in Shapes, bias \in BiasCases :
          /\ params_file = ParamsFile(DefaultArch, variant, sw, bias[1], "cpu")
          /\ cls = Class(DefaultArch, nw, bias[2])
    /\ adata = Dataset(DefaultObs)

\* the new dataset brings categories the saved descriptor has not seen: every
\* saved list and column for one field, with or without a new category in
\* the other
InitVocabulary ==
    /\ args = DefaultArgs
    /\ cuda_available = FALSE
    /\ \E f \in Fields, saved \in SavedLists, column \in Columns,
          other \in { "a", "c" }, has_init \in BOOLEAN :
          LET cats == [g \in Fields |-> IF g = f THEN saved ELSE << "a" >>]
              obs == [g \in Fields |-> IF g = f THEN column
                                       ELSE [i \in 1..MaxCells |-> other]]
          IN /\ attr_file = AttrFile(Descriptor(cats), TRUE, has_init, DefaultInitParams)
             /\ adata = Dataset(obs)
             \* the first layer takes one input per batch category
             /\ params_file = ParamsFile(DefaultArch, "same",
                                         << 1, Len(cats["batch"]) >>, << 1 >>, "cpu")
             /\ cls = Class(DefaultArch,
                            << 1, Len(ExtendCategories(cats["batch"], obs["batch"])) >>,
                            << 1 >>)

\* every freeze configuration on every architecture
InitFreeze ==
    /\ args \in [use_cuda : { TRUE }, freeze_dropout : BOOLEAN,
                 freeze_batchnorm : BOOLEAN, freeze_expression : BOOLEAN]
    /\ cuda_available = FALSE
    /\ attr_file = AttrFile(Descriptor(DefaultCats), TRUE, TRUE, DefaultInitParams)
    /\ \E a \in Archs :
          /\ params_file = ParamsFile(a, "same", << 1, 1 >>, << 1 >>, "cpu")
          /\ cls = Class(a, << 1, 1 >>, << 1 >>)
    /\ adata = Dataset(DefaultObs)

\* every device configuration and every content of the saved attributes
InitDevice ==
    /\ \E use_cuda \in BOOLEAN : args = [DefaultArgs EXCEPT !.use_cuda = use_cuda]
    /\ cuda_available \in BOOLEAN
    /\ \E trained \in BOOLEAN, has_init \in BOOLEAN, ip \in InitParamsChoices :
          attr_file = AttrFile(Descriptor(DefaultCats), trained, has_init, ip)
    /\ \E device \in { "cpu", "cuda" } :
          /\ params_file = ParamsFile(DefaultArch, "same", << 1, 1 >>, << 1 >>, device)
          /\ cls = Class(DefaultArch, << 1, 1 >>, << 1 >>)
    /\ adata = Dataset(DefaultObs)

Init ==
    /\ InitWeights \/ InitVocabulary \/ InitFreeze \/ InitDevice
    /\ pc = "start"
    /\ err = "none"
    /\ io = <<>>
    /\ attr_dict = NoDict
    /\ load_state_dict = NoStateDict
    /\ model = NoModel
    /\ call = NoCall

Raise(e) == /\ pc' = "raised"
            /\ err' = e

\* the call without extend_categories=True
TransferSetupNoExtend(d, ad) == transfer_anndata_setup(d["scvi_setup_dict_"], ad, FALSE)

\* the call transfer_anndata_setup(attr_dict["scvi_setup_dict_"], adata,
\* extend_categories=True), archesmixin.py:50-52
TransferSetup(d, ad) == transfer_anndata_setup(d["scvi_setup_dict_"], ad, TRUE)

\* archesmixin.py:45-53
ReadAttrDict ==
    /\ pc = "start"
    /\ LET loaded == attr_file
           ad == TransferSetup(loaded, adata)
       IN /\ adata' = ad
          /\ attr_dict' = [loaded EXCEPT !["scvi_setup_dict_"] = ad.uns]
    /\ io' = io \o << "pickle.load", "transfer_anndata_setup" >>
    /\ pc' = "attr_loaded"
    /\ UNCHANGED << inputs, err, load_state_dict, model >>

\* `"init_params_" not in attr_dict.keys()`, archesmixin.py:55
MissingInitParams(d) == "init_params_" \notin DOMAIN d

\* the check made only after the saved weights have been read
CheckInitParamsAfterTorchLoad ==
    /\ pc = "attr_loaded"
    /\ IF MissingInitParams(attr_dict)
       THEN /\ Raise("ValueError")
            /\ io' = Append(io, "torch.load:cpu")
            /\ load_state_dict' = params_file.state_dict
       ELSE /\ pc' = "checked"
            /\ err' = err
            /\ io' = io
            /\ load_state_dict' = load_state_dict
    /\ UNCHANGED << inputs, adata, attr_dict, model >>

\* archesmixin.py:55-58
CheckInitParams ==
    /\ pc = "attr_loaded"
    /\ IF MissingInitParams(attr_dict)
       THEN Raise("ValueError")
       ELSE /\ pc' = "checked"
            /\ err' = err
    /\ UNCHANGED << inputs, adata, io, attr_dict, load_state_dict, model >>

\* the request taken as it is, availability not asked
UseCudaAsRequested == args.use_cuda

\* use_cuda = use_cuda and torch.cuda.is_available(), archesmixin.py:70
UseCuda == args.use_cuda /\ cuda_available

\* model.model.cuda() raises on a machine without accelerator, archesmixin.py:72-73
CudaFails == UseCuda /\ ~cuda_available

\* map_location of torch.load, archesmixin.py:77
MapLocation == IF ~UseCuda THEN "cpu" ELSE "None"

\* torch.load of tensors saved on the accelerator, left where they were
\* (map_location=None), raises on a machine without one, archesmixin.py:76-78
TorchLoadFails == MapLocation = "None" /\ params_file.device = "cuda" /\ ~cuda_available

\* archesmixin.py:59-73
ConstructModel ==
    /\ pc = "checked"
    /\ LET init_params == attr_dict["init_params_"]
           popped == Without(attr_dict, "init_params_")
           non_kwargs == NonKwargs(init_params)
           kwargs == Kwargs(init_params)
       IN /\ attr_dict' = popped
          /\ IF (DOMAIN non_kwargs) \cap (DOMAIN kwargs) # {}
             THEN /\ Raise("TypeError")
                  /\ io' = io
                  /\ model' = model
             ELSE /\ IF CudaFails
                     THEN Raise("AssertionError")
                     ELSE /\ pc' = "constructed"
                          /\ err' = err
                  /\ io' = io \o << "cls" >> \o (IF UseCuda THEN << "cuda" >> ELSE <<>>)
                  /\ model' =
                       [ built |-> TRUE,
                         init_kwargs |-> Update(non_kwargs, kwargs),
                         attrs |-> Update(popped, [use_cuda |-> UseCuda]),
                         module |-> FreshModule(cls.arch),
                         state_dict |-> cls.state_dict,
                         training |-> TRUE,
                         device |-> IF UseCuda THEN "cuda" ELSE "cpu" ]
    /\ UNCHANGED << inputs, adata, load_state_dict >>

\* archesmixin.py:76-88
ReconcileWeights ==
    /\ pc = "constructed"
    /\ LET loaded == params_file.state_dict
           r == ReconcileLoop(loaded, model.state_dict, 1)
       IN IF TorchLoadFails
          THEN /\ Raise("RuntimeError")
               /\ load_state_dict' = load_state_dict
          ELSE /\ load_state_dict' = r.lsd
               /\ IF r.err # "none"
                  THEN Raise(r.err)
                  ELSE /\ pc' = "reconciled"
                       /\ err' = err
    /\ io' = Append(io, "torch.load:" \o MapLocation)
    /\ UNCHANGED << inputs, adata, attr_dict, model >>

\* the step without the call of load_state_dict
LoadWeightsNotApplied ==
    /\ pc = "reconciled"
    /\ pc' = "loaded"
    /\ io' = io \o << "eval" >>
    /\ model' = [model EXCEPT !.training = FALSE]
    /\ UNCHANGED << inputs, adata, err, attr_dict, load_state_dict >>

\* archesmixin.py:90-91
LoadWeights ==
    /\ pc = "reconciled"
    /\ LET r == LoadStateDict(model.state_dict, load_state_dict)
       IN IF r.err # "none"
          THEN /\ Raise(r.err)
               /\ io' = Append(io, "load_state_dict")
               /\ model' = model
          ELSE /\ pc' = "loaded"
               /\ err' = err
               /\ io' = io \o << "load_state_dict", "eval" >>
               /\ model' = [model EXCEPT !.state_dict = r.sd, !.training = FALSE]
    /\ UNCHANGED << inputs, adata, attr_dict, load_state_dict >>

\* archesmixin.py:93-98
SetParamsOnlineUpdate ==
    /\ pc = "loaded"
    /\ model' = [model EXCEPT !.module =
                   set_params_online_update(@, args.freeze_batchnorm,
                                            args.freeze_dropout,
                                            args.freeze_expression)]
    /\ io' = Append(io, "_set_params_online_update")
    /\ pc' = "frozen"
    /\ UNCHANGED << inputs, adata, err, attr_dict, load_state_dict >>

\* the return without the reset of is_trained_
ReturnAsSaved ==
    /\ pc = "frozen"
    /\ pc' = "returned"
    /\ UNCHANGED << inputs, adata, err, io, attr_dict, load_state_dict, model >>

\* archesmixin.py:99-101
Return ==
    /\ pc = "frozen"
    /\ model' = [model EXCEPT !.attrs = Update(@, [is_trained_ |-> FALSE])]
    /\ pc' = "returned"
    /\ UNCHANGED << inputs, adata, err, io, attr_dict, load_state_dict >>

Next ==
    \/ ReadAttrDict
    \/ CheckInitParams
    \/ ConstructModel
    \/ ReconcileWeights
    \/ LoadWeights
    \/ SetParamsOnlineUpdate
    \/ Return

Spec == Init /\ [][Next]_vars

\* ------------------------------------------------- load_query_data properties
Saved == params_file.state_dict
Fresh == cls.state_dict
CommonKeys == Range(Saved.keys) \cap Range(Fresh.keys)
AfterReconcile == pc \in { "reconciled", "loaded", "frozen", "returned" }
AfterLoad == pc \in { "loaded", "frozen", "returned" }
AfterFreeze == pc \in { "frozen", "returned" }

\* the last dimension of n is wider than that of s, all other dimensions equal
GrewLast(s, n) ==
    /\ Len(s.size) = Len(n.size)
    /\ Len(s.size) >= 1
    /\ Front(s.size) = Front(n.size)
    /\ Last(n.size) > Last(s.size)

\* C1: once the reconciliation loop has completed, every saved tensor whose
\* last dimension is narrower than the new model's (other dimensions equal)
\* has been replaced by a tensor of the new model's size whose first
\* old-width columns are the saved tensor's and whose remaining columns are
\* the same columns of the new model's freshly initialized tensor.
WeightPadding ==
    AfterReconcile =>
        \A k \in CommonKeys :
            GrewLast(Saved.t[k], Fresh.t[k]) =>
                /\ load_state_dict.t[k].size = Fresh.t[k].size
                /\ \A ix \in Indices(Fresh.t[k].size) :
                       load_state_dict.t[k].at[ix] =
                           IF Last(ix) <= Last(Saved.t[k].size)
                           THEN Saved.t[k].at[ix]
                           ELSE Fresh.t[k].at[ix]

WeightPaddingWitness ==
    /\ pc = "returned"
    /\ \E k \in CommonKeys :
          /\ GrewLast(Saved.t[k], Fresh.t[k])
          /\ Len(Saved.t[k].size) = 2
          /\ model.state_dict.t[k].at[<< 1, 2 >>] = Fresh.t[k].at[<< 1, 2 >>]
          /\ model.state_dict.t[k].at[<< 1, 1 >>] = Saved.t[k].at[<< 1, 1 >>]

\* a difference of sizes that is not growth of the last dimension
OtherMismatch(s, n) == s.size # n.size /\ ~GrewLast(s, n)

SavedDescriptor == attr_file["scvi_setup_dict_"]
NoNewCategories ==
    \A f \in Fields : Range(adata.obs[f]) \subseteq Range(SavedDescriptor[f].categories)
SameShapes ==
    /\ Range(Saved.keys) = Range(Fresh.keys)
    /\ \A k \in CommonKeys : Saved.t[k].size = Fresh.t[k].size

\* C3: reloading against a dataset without new categories, when every saved
\* tensor has the new model's size, returns a model whose tensors are the
\* saved tensors, unaltered by the reconciliation, and whose descriptor is
\* the saved descriptor.
RoundTrip ==
    (AfterLoad /\ NoNewCategories /\ SameShapes) =>
        /\ load_state_dict = Saved
        /\ \A k \in Range(Fresh.keys) : model.state_dict.t[k] = Saved.t[k]
        /\ "scvi_setup_dict_" \in DOMAIN model.attrs
        /\ model.attrs["scvi_setup_dict_"] = SavedDescriptor
        /\ adata.uns = SavedDescriptor

RoundTripWitness ==
    /\ pc = "returned"
    /\ NoNewCategories
    /\ SameShapes
    /\ Len(SavedDescriptor["batch"].categories) = 2
    /\ model.state_dict.t[WeightKey(cls.arch)].size = << 1, 2 >>

TensorIO == { "cuda", "torch.load:cpu", "torch.load:None", "load_state_dict" }

\* C4: when the saved attributes have no init_params_, load_query_data ends
\* in ValueError with no model constructed and no tensor read, moved or
\* loaded.
FatalPathBeforeTensorIO ==
    ("init_params_" \notin DOMAIN attr_file) =>
        /\ pc \in { "start", "attr_loaded", "raised" }
        /\ pc = "raised" => err = "ValueError"
        /\ ~model.built
        /\ "cls" \notin Range(io)
        /\ Range(io) \cap TensorIO = {}
        /\ load_state_dict = NoStateDict

FatalPathWitness ==
    /\ pc = "raised"
    /\ err = "ValueError"
    /\ "init_params_" \notin DOMAIN attr_file
    /\ io = << "pickle.load", "transfer_anndata_setup" >>

FirstSeen(column, v) == CHOOSE i \in 1..Len(column) :
                            column[i] = v /\ \A j \in 1..(i - 1) : column[j] # v

\* C5: after the transfer, every field's category list is the saved list
\* followed by the dataset's unseen values, each once, in the order of their
\* first occurrence; the model's descriptor is that list; and a second
\* transfer of the extended descriptor changes neither descriptor nor
\* encodings.
VocabularyAppendOnly ==
    (pc # "start") =>
        /\ \A f \in Fields :
              LET old == SavedDescriptor[f].categories
                  ext == adata.uns[f].categories
                  col == adata.obs[f]
              IN /\ Len(ext) >= Len(old)
                 /\ SubSeq(ext, 1, Len(old)) = old
                 /\ NoDup(ext)
                 /\ Range(ext) = Range(old) \cup Range(col)
                 /\ \A i, j \in (Len(old) + 1)..Len(ext) :
                        i < j => FirstSeen(col, ext[i]) < FirstSeen(col, ext[j])
                 /\ \A i \in 1..Len(col) : ext[adata.codes[f][i] + 1] = col[i]
        /\ transfer_anndata_setup(adata.uns, adata, TRUE) = adata
        /\ AfterLoad => model.attrs["scvi_setup_dict_"] = adata.uns

VocabularyAppendOnlyWitness ==
    /\ pc = "returned"
    /\ SavedDescriptor["batch"].categories = << "b" >>
    /\ adata.uns["batch"].categories = << "b", "c", "a" >>
    /\ adata.codes["batch"] = << 1, 2 >>

\* ------------------------------------------------ freeze-policy properties
Arch == cls.arch
Parameters == Range(named_parameters(Arch))
SubmoduleParameters == Parameters \ Range(RootParams)
FirstLinear == { WeightKey(Arch), BiasKey(Arch) }
Grad == model.module.requires_grad
Hooks == model.module.hooks

\* a module of architecture a whose parameters all start without gradient
StartFrozen(a) ==
    [FreshModule(a) EXCEPT !.requires_grad = [k \in DOMAIN @ |-> FALSE]]

\* models sharing parameter names with the one being loaded: those with the
\* same submodule, and one with another submodule (the root's parameters)
OtherModels ==
    { a \in Archs : a.top = Arch.top } \cup { CHOOSE a \in Archs : a.top # Arch.top }

\* C6: after the freeze policy has run, every named parameter has had
\* requires_grad written exactly once, to TRUE or FALSE, and the value is
\* the one another model having a parameter of that name gets under the
\* same configuration, whatever its requires_grad was before.
FreezeCoverage ==
    /\ AfterFreeze =>
           \A k \in Parameters :
               /\ model.module.grad_writes[k] = 1
               /\ Grad[k] \in BOOLEAN
    /\ pc = "frozen" =>
           \A a \in OtherModels :
               LET other == set_params_online_update(StartFrozen(a),
                                args.freeze_batchnorm, args.freeze_dropout,
                                args.freeze_expression).requires_grad
               IN \A k \in Parameters \cap DOMAIN other : other[k] = Grad[k]

FreezeCoverageWitness ==
    /\ pc = "frozen"
    /\ \E k \in Parameters : Grad[k]
    /\ \E k \in Parameters : ~Grad[k]
    /\ \A k \in Parameters : model.module.grad_writes[k] = 1

\* C7 as stated: in encoder_z2_z1 and decoder_z1_z2 exactly the first linear
\* layer's weight and bias stay trainable.
TaggedFirstLinearTrainable ==
    (AfterFreeze /\ Arch.top \in mod_no_grad) =>
        \A k \in SubmoduleParameters : Grad[k] = (k \in FirstLinear)

\* C7: in encoder_z2_z1 and decoder_z1_z2 every parameter ends without
\* gradient, the first linear layer's weight and bias included, except a
\* parameter named after background_pro_alpha or background_pro_log_beta.
TaggedModulesFrozen ==
    (AfterFreeze /\ Arch.top \in mod_no_grad) =>
        \A k \in SubmoduleParameters :
            Grad[k] = (Arch.extra \in parameters_yes_grad /\ k = Join(Arch.top, Arch.extra))

TaggedModulesFrozenWitness ==
    /\ pc = "frozen"
    /\ Arch.top = <<"encoder", "_z2_z1">>
    /\ ~Grad[WeightKey(Arch)]
    /\ ~Grad[BiasKey(Arch)]

AllowListed(k) ==
    \/ SplitHead(k) = <<"l_", "encoder">>
    \/ Contains(k, <<"background_pro_alpha">>)
    \/ Contains(k, <<"background_pro_log_beta">>)

\* C8 as stated: outside the allow-list only the first linear layer's weight
\* and bias are trainable.
OnlyFirstLinearTrainable ==
    AfterFreeze =>
        \A k \in Parameters : (~AllowListed(k) /\ Grad[k]) => k \in FirstLinear

LinearOfLayer(i) == { Join(SubLayerName(Arch, i, 0), <<"weight">>),
                      Join(SubLayerName(Arch, i, 0), <<"bias">>) }
BatchNormOfLayer(i) == { Join(SubLayerName(Arch, i, 1), <<"weight">>),
                         Join(SubLayerName(Arch, i, 1), <<"bias">>) }

\* C8: outside the allow-list a parameter is trainable exactly when its name
\* contains fc_layers and .0. and its top-level module is neither
\* encoder_z2_z1 nor decoder_z1_z2: the linear item 0 of every layer of a
\* block, later layers included, is trainable; batch-norm items and heads
\* are not, unless the block itself is item 0 of a Sequential.
OnlyItemZeroOfBlocksTrainable ==
    AfterFreeze =>
        /\ \A k \in Parameters :
               ~AllowListed(k) =>
                   Grad[k] = /\ Contains(k, <<"fc_layers">>)
                             /\ Contains(k, <<DOT, "0", DOT>>)
                             /\ SplitHead(k) \notin mod_no_grad
        /\ \A i \in 0..(NLayers - 1) :
               /\ \A k \in LinearOfLayer(i) :
                      ~AllowListed(k) => Grad[k] = (Arch.top \notin mod_no_grad)
               /\ \A k \in BatchNormOfLayer(i) :
                      ~AllowListed(k) => Grad[k] = (Arch.block = <<"0">>)
        /\ \A k \in { Join(HeadName(Arch), <<"weight">>), Join(HeadName(Arch), <<"bias">>) } :
               ~AllowListed(k) => ~Grad[k]

OnlyItemZeroWitness ==
    /\ pc = "frozen"
    /\ Arch.top = <<"z_", "encoder">>
    /\ NLayers >= 2
    /\ Grad[Join(SubLayerName(Arch, NLayers - 1, 0), <<"weight">>)]
    /\ ~Grad[Join(SubLayerName(Arch, NLayers - 1, 1), <<"weight">>)]
    /\ ~Grad[Join(HeadName(Arch), <<"bias">>)]

\* C9: under every configuration, every parameter of l_encoder and every
\* parameter named after background_pro_alpha or background_pro_log_beta,
\* in whatever module, ends trainable.
AllowListTrainable ==
    AfterFreeze =>
        /\ Arch.top = <<"l_", "encoder">> => \A k \in SubmoduleParameters : Grad[k]
        /\ Grad[<<"background_pro_alpha">>]
        /\ Grad[<<"background_pro_log_beta">>]
        /\ Arch.extra \in parameters_yes_grad => Grad[Join(Arch.top, Arch.extra)]

AllowListTrainableWitness ==
    /\ pc = "frozen"
    /\ args.freeze_dropout /\ args.freeze_batchnorm /\ args.freeze_expression
    /\ Arch.top = <<"decoder", "_z1_z2">>
    /\ Arch.extra = <<"background_pro_log_beta">>
    /\ Grad[Join(Arch.top, Arch.extra)]
    /\ ~Grad[WeightKey(Arch)]

Blocks == ModuleNames(Arch, "FCLayers")

\* C10 as stated: every block of an encoder gets the hooks on its first
\* layer when freeze_expression is set; otherwise every block named after
\* "encoder" is set up without them and every other block with them.
HooksOnEveryBlock ==
    AfterFreeze =>
        \A b \in Blocks :
            IF args.freeze_expression
            THEN Contains(b, <<"encoder">>) => Hooks[b] = "hook_first_layer"
            ELSE Hooks[b] = IF Contains(b, <<"encoder">>) THEN "skip_first_layer"
                            ELSE "hook_first_layer"

\* C10: the same for every block outside the protected module l_encoder,
\* whose blocks never have set_online_update_hooks called on them.
HooksOutsideProtected ==
    AfterFreeze =>
        \A b \in Blocks :
            IF Arch.top = <<"l_", "encoder">>
            THEN Hooks[b] = "none"
            ELSE IF args.freeze_expression
            THEN Hooks[b] = "hook_first_layer"
            ELSE Hooks[b] = IF Contains(b, <<"encoder">>) THEN "skip_first_layer"
                            ELSE "hook_first_layer"

HooksOutsideProtectedWitness ==
    /\ pc = "frozen"
    /\ ~args.freeze_expression
    /\ Arch.top = <<"encoder", "_z2_z1">>
    /\ Hooks[BlockName(Arch)] = "skip_first_layer"

Dropouts == ModuleNames(Arch, "Dropout")
BatchNorms == ModuleNames(Arch, "BatchNorm1d")
Protected == Arch.top \in mod_no_hooks_yes_grad

\* C11 as stated: with freeze_dropout every dropout layer of the model has
\* rate 0, with freeze_batchnorm every batch-norm layer has affine and
\* track_running_stats off, in whatever submodule.
FreezeTogglesEverywhere ==
    AfterFreeze =>
        /\ args.freeze_dropout => \A d \in Dropouts : model.module.p[d] = 0
        /\ args.freeze_batchnorm =>
               \A b \in BatchNorms : /\ ~model.module.affine[b]
                                     /\ ~model.module.track_running_stats[b]

\* C11: the same for every layer outside the protected module l_encoder,
\* whose dropout and batch-norm layers keep rate and flags.
FreezeTogglesOutsideProtected ==
    AfterFreeze =>
        IF Protected
        THEN /\ \A d \in Dropouts : model.module.p[d] = Arch.dropout_rate
             /\ \A b \in BatchNorms : /\ model.module.affine[b]
                                      /\ model.module.track_running_stats[b]
        ELSE /\ args.freeze_dropout => \A d \in Dropouts : model.module.p[d] = 0
             /\ args.freeze_batchnorm =>
                    \A b \in BatchNorms : /\ ~model.module.affine[b]
                                          /\ ~model.module.track_running_stats[b]

FreezeTogglesWitness ==
    /\ pc = "frozen"
    /\ args.freeze_dropout /\ args.freeze_batchnorm
    /\ Arch.top = <<"decoder">>
    /\ \A d \in Dropouts : model.module.p[d] = 0
    /\ \A b \in BatchNorms : ~model.module.track_running_stats[b]

\* C12: a second application of the freeze policy with the same switches
\* leaves every dropout rate, batch-norm flag and requires_grad as the first
\* left them; a switch that is off leaves its layers as constructed.
FreezeIdempotent ==
    pc = "frozen" =>
        LET again == set_params_online_update(model.module, args.freeze_batchnorm,
                         args.freeze_dropout, args.freeze_expression)
        IN /\ again.p = model.module.p
           /\ again.affine = model.module.affine
           /\ again.track_running_stats = model.module.track_running_stats
           /\ again.requires_grad = model.module.requires_grad
           /\ ~args.freeze_dropout => model.module.p = FreshModule(Arch).p
           /\ ~args.freeze_batchnorm =>
                  /\ model.module.affine = FreshModule(Arch).affine
                  /\ model.module.track_running_stats =
                         FreshModule(Arch).track_running_stats

FreezeIdempotentWitness ==
    /\ pc = "frozen"
    /\ args.freeze_batchnorm /\ ~args.freeze_dropout
    /\ Arch.top = <<"z_", "encoder">>
    /\ \A d \in Dropouts : model.module.p[d] = Arch.dropout_rate
    /\ \A b \in BatchNorms : ~model.module.affine[b]

Granted == args.use_cuda /\ cuda_available
AcceleratorIO == { "cuda", "torch.load:None" }

\* C13: without an accelerator no accelerator operation is attempted, so
\* none can fail; the model's use_cuda is the request and the availability
\* together; the module is moved to the accelerator exactly when that is
\* True; when it is False the saved weights are read mapped to the CPU.
DeviceFallback ==
    /\ ~cuda_available => Range(io) \cap AcceleratorIO = {}
    /\ pc = "raised" => err # "AssertionError"
    /\ model.built =>
          /\ model.attrs.use_cuda = Granted
          /\ ("cuda" \in Range(io)) = Granted
          /\ (model.device = "cuda") = Granted
    /\ AfterReconcile =>
          IF Granted
          THEN "torch.load:None" \in Range(io)
          ELSE "torch.load:cpu" \in Range(io) /\ "torch.load:None" \notin Range(io)

DeviceFallbackWitness ==
    /\ pc = "returned"
    /\ args.use_cuda
    /\ ~cuda_available
    /\ params_file.device = "cuda"
    /\ ~model.attrs.use_cuda
    /\ model.device = "cpu"
    /\ "torch.load:cpu" \in Range(io)

TrainedAsSaved == attr_file["is_trained_"]

\* C14: a returned model has is_trained_ False and its module in evaluation
\* mode whatever the saved is_trained_ was; until the return, after the
\* weights are loaded and the freeze policy applied, the model carries the
\* saved value.
ReturnedUntrained ==
    /\ pc = "returned" =>
          /\ ~model.attrs["is_trained_"]
          /\ ~model.training
          /\ { "load_state_dict", "eval", "_set_params_online_update" } \subseteq Range(io)
    /\ (model.built /\ pc # "returned") =>
          model.attrs["is_trained_"] = TrainedAsSaved

ReturnedUntrainedWitness ==
    /\ pc = "returned"
    /\ TrainedAsSaved
    /\ ~model.attrs["is_trained_"]
    /\ ~model.training

SavedInitParams == attr_file["init_params_"]
HasInitParams == "init_params_" \in DOMAIN attr_file
PlainNames(ip) == { k \in Range(ip.keys) : ~ip.t[k].isdict }
DictNames(ip) == { k \in Range(ip.keys) : ip.t[k].isdict }
InnerNames(ip) == UNION { DOMAIN ip.t[k].d : k \in DictNames(ip) }
\* the position of the last dict-valued parameter that has the inner key j
LastWith(ip, j) ==
    CHOOSE i \in 1..Len(ip.keys) :
        /\ ip.t[ip.keys[i]].isdict
        /\ j \in DOMAIN ip.t[ip.keys[i]].d
        /\ \A i2 \in (i + 1)..Len(ip.keys) :
               ~(ip.t[ip.keys[i2]].isdict /\ j \in DOMAIN ip.t[ip.keys[i2]].d)

\* C15 as stated: every non-dict saved parameter is passed under its name
\* with its value, every entry of every dict-valued parameter is passed under
\* its inner key, and init_params_ is not copied onto the model.
EveryInitParamPassed ==
    (HasInitParams /\ model.built) =>
        LET ip == SavedInitParams
        IN /\ \A k \in PlainNames(ip) :
                  k \in DOMAIN model.init_kwargs /\ model.init_kwargs[k] = ip.t[k].v
           /\ \A k \in DictNames(ip) : \A j \in DOMAIN ip.t[k].d :
                  j \in DOMAIN model.init_kwargs /\ model.init_kwargs[j] = ip.t[k].d[j]
           /\ "init_params_" \notin DOMAIN model.attrs

\* C15: the same, except that of two dict-valued parameters with a common
\* inner key only the later one's entry is passed, and that an inner key
\* equal to the name of a non-dict parameter ends the call in TypeError with
\* no model.
InitParamsPassedLastWins ==
    HasInitParams =>
        LET ip == SavedInitParams
        IN /\ model.built =>
                 /\ DOMAIN model.init_kwargs = PlainNames(ip) \cup InnerNames(ip)
                 /\ \A k \in PlainNames(ip) : model.init_kwargs[k] = ip.t[k].v
                 /\ \A j \in InnerNames(ip) :
                        model.init_kwargs[j] = ip.t[ip.keys[LastWith(ip, j)]].d[j]
                 /\ "init_params_" \notin DOMAIN model.attrs
                 /\ "init_params_" \notin DOMAIN attr_dict
           /\ PlainNames(ip) \cap InnerNames(ip) # {} =>
                 /\ ~model.built
                 /\ pc = "raised" => err = "TypeError"
           /\ (pc = "raised" /\ err = "TypeError") =>
                 PlainNames(ip) \cap InnerNames(ip) # {}

InitParamsPassedWitness ==
    /\ pc = "returned"
    /\ HasInitParams
    /\ Cardinality(DictNames(SavedInitParams)) = 2
    /\ model.init_kwargs["n_hidden"] = 64
    /\ model.init_kwargs["dispersion"] = 1
    /\ model.init_kwargs["n_latent"] = 10

\* C16 as stated: when load_query_data fails because init_params_ is
\* missing, the caller's dataset is as it was before the call: no descriptor
\* registered, no column encoded.
FailureLeavesDatasetUnchanged ==
    (pc = "raised" /\ err = "ValueError" /\ ~HasInitParams) =>
        adata = Dataset(adata.obs)

\* ----------------------------------------------------------- helper functions
\* Python's s[i], s[:n] and s[n:] of a list
At(s, i) == s[i + 1]
Take(s, n) == SubSeq(s, 1, IF n < Len(s) THEN n ELSE Len(s))
Drop(s, n) == SubSeq(s, (IF n < Len(s) THEN n ELSE Len(s)) + 1, Len(s))

RECURSIVE SumOver(_, _)
SumOver(S, f) ==
    IF S = {} THEN 0
    ELSE LET x == CHOOSE y \in S : TRUE
         IN f[x] + SumOver(S \ {x}, f)

\* ------------------------------------------ scvi/dataset/utils.py: get_indices
Classes == { 0, 1 }
Quotas == { 0, 1, 2 }
LabelLists == UNION { [1..n -> Classes] : n \in 0..MaxCells }
\* np.random.permutation(n): some arrangement of 0..n-1
PermutationsOf(n) ==
    { q \in [1..n -> 0..(n - 1)] : \A i, j \in 1..n : q[i] = q[j] => i = j }

\* the loop of get_indices, utils.py:45-52
RECURSIVE IndicesLoop(_, _, _, _, _)
IndicesLoop(labels, n_array, idx, indices, current_nbrs) ==
    IF idx >= Len(labels) THEN indices
    ELSE LET label == At(labels, idx)
         IN IF current_nbrs[label] < n_array[label]
            THEN IndicesLoop(labels, n_array, idx + 1, << idx >> \o indices,
                             [current_nbrs EXCEPT ![label] = @ + 1])
            ELSE IndicesLoop(labels, n_array, idx + 1, Append(indices, idx),
                             current_nbrs)

\* utils.py:39-55, the permutation drawn at line 42 given as permutation_idx
get_indices(labels, n_array, permutation_idx) ==
    LET permuted == [i \in 1..Len(labels) |-> At(labels, permutation_idx[i])]
        indices == IndicesLoop(permuted, n_array, 0, <<>>,
                               [c \in DOMAIN n_array |-> 0])
        total_labelled == SumOver(DOMAIN n_array, n_array)
        pick(s) == [i \in 1..Len(s) |-> At(permutation_idx, s[i])]
    IN << pick(Take(indices, total_labelled)), pick(Drop(indices, total_labelled)) >>

IndicesCalls ==
    UNION { { [fn |-> "get_indices", done |-> FALSE, out |-> <<>>,
               in |-> [labels |-> l, n_array |-> n, permutation_idx |-> q]] :
                 n \in [Classes -> Quotas], q \in PermutationsOf(Len(l)) } :
            l \in LabelLists }

GetIndices ==
    /\ call.fn = "get_indices"
    /\ ~call.done
    /\ call' = [call EXCEPT !.done = TRUE,
                            !.out = get_indices(call.in.labels, call.in.n_array,
                                                call.in.permutation_idx)]
    /\ UNCHANGED << args, cuda_available, attr_file, params_file, cls, adata,
                    pc, err, io, attr_dict, load_state_dict, model >>

\* ------------- scvi/external/cell2location: compute_cluster_averages
None == "None"
Genes == { "g1", "g2" }
\* the cluster labels in the order np.unique sorts them
ClusterOrder == << "B", "T" >>
Matrices == [1..MaxCells -> [Genes -> { 0, 1 }]]
\* a matrix that differs from m in every entry
Shifted(m, k) == [i \in DOMAIN m |-> [g \in DOMAIN m[i] |-> m[i][g] + k]]
NoMatrix == <<>>
LayerSets == { {}, { "counts" }, { "counts", "layer" } }
AnnDatas ==
    { [obs |-> [cluster |-> col],
       X |-> m,
       raw |-> [present |-> has_raw, X |-> Shifted(m, 10)],
       layers |-> [n \in names |-> IF n = "counts" THEN Shifted(m, 20) ELSE Shifted(m, 30)]] :
         col \in [1..MaxCells -> Range(ClusterOrder)], m \in Matrices,
         has_raw \in BOOLEAN, names \in LayerSets }

\* csr_matrix(x[np.isin(adata.obs[labels], c), :]).mean(0), one gene's entry:
\* the quotient kept as sum over count
ClusterMean(x, col, c, g) ==
    LET cells == { i \in DOMAIN col : col[i] = c }
    IN [sum |-> SumOver(cells, [i \in cells |-> x[i][g]]), n |-> Cardinality(cells)]

\* _cell2location_v1.py:39-52
ChooseMatrix(ad, use_raw, layer) ==
    IF layer # None
    THEN IF "layer" \in DOMAIN ad.layers
         THEN [err |-> "none", x |-> ad.layers["layer"]]
         ELSE [err |-> "KeyError", x |-> NoMatrix]
    ELSE IF ~use_raw
         THEN [err |-> "none", x |-> ad.X]
         ELSE IF ~ad.raw.present
              THEN [err |-> "ValueError", x |-> NoMatrix]
              ELSE [err |-> "none", x |-> ad.raw.X]

\* _cell2location_v1.py:32-67
compute_cluster_averages(ad, labels, use_raw, layer) ==
    LET chosen == ChooseMatrix(ad, use_raw, layer)
        Failed(e) == [err |-> e, columns |-> <<>>, at |-> <<>>]
    IN IF chosen.err # "none" THEN Failed(chosen.err)
       ELSE IF labels \notin DOMAIN ad.obs THEN Failed("ValueError")
       ELSE LET col == ad.obs[labels]
                Present(c) == c \in Range(col)
                all_clusters == SelectSeq(ClusterOrder, Present)
            IN [err |-> "none",
                columns |-> all_clusters,
                at |-> [g \in Genes |-> [c \in Range(all_clusters) |->
                          ClusterMean(chosen.x, col, c, g)]]]

AveragesCalls ==
    { [fn |-> "compute_cluster_averages", done |-> FALSE, out |-> <<>>,
       in |-> [adata |-> ad, labels |-> l, use_raw |-> u, layer |-> y]] :
         ad \in AnnDatas, l \in { "cluster", "louvain" }, u \in BOOLEAN,
         y \in { None, "counts", "layer" } }

ComputeClusterAverages ==
    /\ call.fn = "compute_cluster_averages"
    /\ ~call.done
    /\ call' = [call EXCEPT !.done = TRUE,
                            !.out = compute_cluster_averages(call.in.adata,
                                        call.in.labels, call.in.use_raw, call.in.layer)]
    /\ UNCHANGED << args, cuda_available, attr_file, params_file, cls, adata,
                    pc, err, io, attr_dict, load_state_dict, model >>

\* ---------------------- scvi/data/_utils.py: _get_batch_mask_protein_data
Proteins == { "p1", "p2" }
\* protein expression is count data
ProteinCounts == { 0, 1, 2 }
BatchValues == { 0, 1 }
ProteinDatas ==
    { [n_obs |-> MaxCells,
       obs |-> [batch |-> col],
       obsm |-> [protein_expression |-> m]] :
         col \in [1..MaxCells -> BatchValues],
         m \in [1..MaxCells -> [Proteins -> ProteinCounts]] }

\* the sum taken over all cells, whatever their batch
batch_sum_of_all_cells(pro_exp, b_inds, p) ==
    SumOver(DOMAIN pro_exp, [i \in DOMAIN pro_exp |-> pro_exp[i][p]])

\* pro_exp[b_inds, :].sum(axis=0), one column's entry, _utils.py:188
batch_sum(pro_exp, b_inds, p) ==
    SumOver(b_inds, [i \in b_inds |-> pro_exp[i][p]])

\* _utils.py:168-192
get_batch_mask_protein_data(ad, protein_expression_obsm_key, batch_key) ==
    LET pro_exp == ad.obsm[protein_expression_obsm_key]
        batches == IF batch_key \in DOMAIN ad.obs
                   THEN ad.obs[batch_key]
                   ELSE [i \in 1..ad.n_obs |-> 0]
    IN [b \in Range(batches) |->
          LET b_inds == { i \in DOMAIN batches : batches[i] = b }
          IN [p \in Proteins |->
                LET all_zero == batch_sum(pro_exp, b_inds, p) = 0
                IN ~all_zero]]

MaskCalls ==
    { [fn |-> "_get_batch_mask_protein_data", done |-> FALSE, out |-> <<>>,
       in |-> [adata |-> ad, protein_expression_obsm_key |-> "protein_expression",
               batch_key |-> k]] :
         ad \in ProteinDatas, k \in { "batch", None } }

GetBatchMaskProteinData ==
    /\ call.fn = "_get_batch_mask_protein_data"
    /\ ~call.done
    /\ call' = [call EXCEPT !.done = TRUE,
                            !.out = get_batch_mask_protein_data(call.in.adata,
                                        call.in.protein_expression_obsm_key,
                                        call.in.batch_key)]
    /\ UNCHANGED << args, cuda_available, attr_file, params_file, cls, adata,
                    pc, err, io, attr_dict, load_state_dict, model >>

\* no load_query_data in progress
NotLoading ==
    /\ args = DefaultArgs
    /\ cuda_available = FALSE
    /\ attr_file = AttrFile(Descriptor(DefaultCats), TRUE, TRUE, DefaultInitParams)
    /\ params_file = ParamsFile(DefaultArch, "same", << 1, 1 >>, << 1 >>, "cpu")
    /\ cls = Class(DefaultArch, << 1, 1 >>, << 1 >>)
    /\ adata = Dataset(DefaultObs)
    /\ pc = "start"
    /\ err = "none"
    /\ io = <<>>
    /\ attr_dict = NoDict
    /\ load_state_dict = NoStateDict
    /\ model = NoModel

HelperInit ==
    /\ NotLoading
    /\ \/ call \in IndicesCalls
       \/ call \in AveragesCalls
       \/ call \in MaskCalls

HelperNext ==
    \/ GetIndices
    \/ ComputeClusterAverages
    \/ GetBatchMaskProteinData

HelperSpec == HelperInit /\ [][HelperNext]_vars

\* ---------------------------------------------------------- helper properties
Called(fn) == call.fn = fn /\ call.done

\* C17 as stated: the two arrays are disjoint and together hold every sample
\* index once, and the labelled array holds at most n_per_class[c] samples of
\* class c, exactly that many when the class has that many.
IndicesPartitionWithQuota ==
    Called("get_indices") =>
        LET labels == call.in.labels
            n == call.in.n_array
            labelled == call.out[1]
            unlabelled == call.out[2]
            CountOf(c) == Cardinality({ i \in 1..Len(labelled) :
                                          At(labels, labelled[i]) = c })
            ClassSize(c) == Cardinality({ i \in 1..Len(labels) : labels[i] = c })
        IN /\ Range(labelled) \cap Range(unlabelled) = {}
           /\ Range(labelled) \cup Range(unlabelled) = 0..(Len(labels) - 1)
           /\ Len(labelled) + Len(unlabelled) = Len(labels)
           /\ \A c \in Classes :
                  /\ CountOf(c) <= n[c]
                  /\ ClassSize(c) >= n[c] => CountOf(c) = n[c]

\* the result is the table of cluster means of the matrix x
AveragesOf(x) ==
    LET col == call.in.adata.obs[call.in.labels]
    IN /\ call.out.err = "none"
       /\ Range(call.out.columns) = Range(col)
       /\ \A g \in Genes : \A c \in Range(col) :
              call.out.at[g][c] = ClusterMean(x, col, c, g)

\* C18 as stated: with a layer name the means are those of the matrix stored
\* under that name, without one those of X or, with use_raw, of raw.X, where
\* missing raw data ends in ValueError; column c is the mean over the cells
\* labelled c.
AveragesFromNamedMatrix ==
    Called("compute_cluster_averages") =>
        LET ad == call.in.adata
            layer == call.in.layer
            use_raw == call.in.use_raw
            labelled == call.in.labels \in DOMAIN ad.obs
        IN /\ (layer # None /\ layer \in DOMAIN ad.layers /\ labelled) =>
                  AveragesOf(ad.layers[layer])
           /\ (layer = None /\ ~use_raw /\ labelled) => AveragesOf(ad.X)
           /\ (layer = None /\ use_raw /\ ad.raw.present /\ labelled) =>
                  AveragesOf(ad.raw.X)
           /\ (layer = None /\ use_raw /\ ~ad.raw.present) =>
                  call.out.err = "ValueError"

====
